---------------------------- MODULE Spec2Model ----------------------------
(***************************************************************************)
(* A model of lib/py/src/transport/TTransport.py: the generic readAll of   *)
(* TTransportBase, the buffered and framed transports, the memory buffer   *)
(* and the SASL client transport.                                          *)
(*                                                                         *)
(* A transport object is a record; its "kind" field stands for its class,  *)
(* and a wrapping transport holds the record of the transport it wraps in  *)
(* its "trans" field.  A method is an operator from the object (and the    *)
(* arguments) to the SET of its possible outcomes: records holding the     *)
(* returned value, the exception raised ("none" when it returns) and the   *)
(* object after the call.                                                  *)
(***************************************************************************)
EXTENDS Integers, Sequences, FiniteSets, TLC

(***************************************************************************)
(* Bounds of the model.                                                    *)
(***************************************************************************)
\* the longest byte stream a raw channel starts with
MaxStream == 4
\* the number of distinct payload byte values (1..NumByteVals)
NumByteVals == 2
\* a read window smaller than the streams, beside the default one
SmallWindow == 2
\* the most handshake messages the peer sends before it closes its side
MaxPeerMsgs == 2
\* the most failures a channel injects into its writes and flushes
MaxFaults == 1
\* the most frames a framed reader finds on its channel
MaxFrames == 3
\* the most calls the caller of a SASL transport makes
MaxCalls == 2
\* the most calls the caller of a writing transport makes
MaxWriterCalls == 4
\* the longest byte string of one write
MaxWrite == 1
\* the most calls made on the two ends of a framed link
MaxLinkCalls == 5
\* the most bytes the reader of a framed link asks for in one call
MaxLinkRead == 2
\* the most bytes that follow a frame header of any value on a channel
MaxHeaderBody == 2
\* the longest byte stream under a transport whose buffer is leased
MaxLeaseStream == 3
\* the most frames under a framing transport whose buffer is leased
MaxLeaseFrames == 2
\* the most calls made on a transport whose buffer is leased
MaxLeaseCalls == 3
\* the most bytes one of these calls asks for
MaxLeaseRead == 2
\* the most calls made on the two ends of a secured link
MaxSecureCalls == 5

(***************************************************************************)
(* Bytes and byte strings.                                                 *)
(***************************************************************************)
PayloadByte == 1..NumByteVals

Min(a, b) == IF a < b THEN a ELSE b
Max(a, b) == IF a < b THEN b ELSE a

Take(s, k) == SubSeq(s, 1, k)
Drop(s, k) == SubSeq(s, k + 1, Len(s))

RECURSIVE SeqsUpTo(_, _)
\* every sequence over S of length 0..n
SeqsUpTo(S, n) ==
    IF n = 0 THEN {<< >>}
    ELSE LET shorter == SeqsUpTo(S, n - 1)
         IN  shorter \cup {Append(s, x) : s \in {r \in shorter : Len(r) = n - 1}, x \in S}

\* the outcome of a call: the value returned, the exception raised and the
\* object after the call
Outcome(ret, exc, t) == [ret |-> ret, exc |-> exc, t |-> t]

(***************************************************************************)
(* A raw byte channel behind TFileObjectTransport: fileobj.read(sz) of a   *)
(* blocking stream (a socket file, a pipe) returns between 1 and sz of the *)
(* bytes not yet read, in order, and b'' only at end of stream.            *)
(***************************************************************************)
FileObject(bytes) == [kind |-> "file", wire |-> bytes]

\* the lengths fileobj.read(sz) may return
fileobj_read_lens(wire, sz) ==
    IF sz <= 0 \/ Len(wire) = 0 THEN {0} ELSE 1..Min(sz, Len(wire))

TFileObjectTransport_read(t, sz) ==
    { Outcome(Take(t.wire, k), "none", [t EXCEPT !.wire = Drop(@, k)])
        : k \in fileobj_read_lens(t.wire, sz) }

\* a file object that notes in "asked" the size each of its reads is asked for
LoggedFile(bytes) == [kind |-> "logfile", wire |-> bytes, asked |-> << >>]

LoggedFile_read(t, sz) ==
    { Outcome(Take(t.wire, k), "none",
              [t EXCEPT !.wire = Drop(@, k), !.asked = Append(@, sz)])
        : k \in fileobj_read_lens(t.wire, sz) }

(***************************************************************************)
(* io.BytesIO: a byte string and a position in it.                         *)
(***************************************************************************)
BytesIO(initial) == [value |-> initial, pos |-> 0]

\* the bytes between the position and the end
BytesIO_rest(b) == Drop(b.value, Min(b.pos, Len(b.value)))

\* read(sz): up to sz bytes from the position (all of them when sz < 0), and
\* the position moves past them
BytesIO_read(b, sz) ==
    LET k == IF sz < 0 THEN Len(BytesIO_rest(b)) ELSE Min(sz, Len(BytesIO_rest(b)))
    IN  [data |-> Take(BytesIO_rest(b), k), b |-> [b EXCEPT !.pos = @ + k]]

\* write(buf): buf overwrites the bytes at the position and extends the value
BytesIO_write(b, buf) ==
    [value |-> Take(b.value, b.pos) \o buf \o Drop(b.value, b.pos + Len(buf)),
     pos |-> b.pos + Len(buf)]

BytesIO_getvalue(b) == b.value

\* a bytes object, which write accepts; write raises TypeError for an argument
\* of another type, such as a str, and leaves the buffer as it was
IsBytes(buf) == \A i \in 1..Len(buf) : buf[i] \in 0..255

\* an argument that is not a bytes object
NotBytes == <<-1>>

(***************************************************************************)
(* TMemoryBuffer.                                                          *)
(***************************************************************************)
TMemoryBuffer(value) == [kind |-> "memory", buffer |-> BytesIO(value), closed |-> FALSE]

TMemoryBuffer_read(t, sz) ==
    LET r == BytesIO_read(t.buffer, sz)
    IN  {Outcome(r.data, "none", [t EXCEPT !.buffer = r.b])}

TMemoryBuffer_cstringio_refill(t, partialread, reqlen) ==
    {Outcome(<< >>, "EOFError", t)}

(***************************************************************************)
(* struct.pack and struct.unpack with the formats the module uses.  A      *)
(* 4-byte field is big-endian; 'i' is signed (two's complement), 'I' is    *)
(* unsigned.                                                               *)
(***************************************************************************)
\* the four bytes of n, 0 <= n < 2^31, most significant first
BigEndian4(n) ==
    << n \div 16777216, (n \div 65536) % 256, (n \div 256) % 256, n % 256 >>

\* pack("!i", n), -2^31 <= n < 2^31
pack_i(n) ==
    IF n >= 0 THEN BigEndian4(n)
    ELSE LET low == BigEndian4((n + 2147483647) + 1)
         IN  << low[1] + 128, low[2], low[3], low[4] >>

\* unpack('!i', b): a first byte of 128 or more makes the number negative
unpack_i(b) ==
    (IF b[1] >= 128 THEN b[1] - 256 ELSE b[1]) * 16777216
        + b[2] * 65536 + b[3] * 256 + b[4]

\* pack(">BI", status, n), 0 <= n < 2^31
pack_BI(status, n) == <<status>> \o BigEndian4(n)

\* unpack(">BI", b) of a 5-byte header whose length field is below 2^31
unpack_BI(b) ==
    [status |-> b[1],
     length |-> b[2] * 16777216 + b[3] * 65536 + b[4] * 256 + b[5]]

(***************************************************************************)
(* The channel under a wrapping transport: a TTransportBase such as a      *)
(* socket.  It is open or not; "wire" holds the bytes the peer has sent    *)
(* and that are not read yet, followed by end of stream; "sent" holds the  *)
(* byte string of every write that reached it, "flushes" counts its        *)
(* flushes.  A write or a flush may fail while "faults" is positive.       *)
(***************************************************************************)
Channel(isopen, inbound, faults) ==
    [kind |-> "channel", isOpen |-> isopen, wire |-> inbound,
     sent |-> << >>, flushes |-> 0, faults |-> faults]

Channel_isOpen(t) == t.isOpen

Channel_open(t) == {Outcome(<< >>, "none", [t EXCEPT !.isOpen = TRUE])}

Channel_close(t) == {Outcome(<< >>, "none", [t EXCEPT !.isOpen = FALSE])}

\* a read gives one byte or as many as asked for and there are
Channel_read_lens(wire, sz) ==
    IF sz <= 0 \/ Len(wire) = 0 THEN {0} ELSE {1, Min(sz, Len(wire))}

Channel_read(t, sz) ==
    IF ~t.isOpen THEN {Outcome(<< >>, "NOT_OPEN", t)}
    ELSE { Outcome(Take(t.wire, k), "none", [t EXCEPT !.wire = Drop(@, k)])
             : k \in Channel_read_lens(t.wire, sz) }

Channel_write(t, buf) ==
    IF ~t.isOpen THEN {Outcome(<< >>, "NOT_OPEN", t)}
    ELSE {Outcome(<< >>, "none", [t EXCEPT !.sent = Append(@, buf)])}
         \cup (IF t.faults > 0
               THEN {Outcome(<< >>, "OSError", [t EXCEPT !.faults = @ - 1])}
               ELSE {})

Channel_flush(t) ==
    IF ~t.isOpen THEN {Outcome(<< >>, "NOT_OPEN", t)}
    ELSE {Outcome(<< >>, "none", [t EXCEPT !.flushes = @ + 1])}
         \cup (IF t.faults > 0
               THEN {Outcome(<< >>, "OSError", [t EXCEPT !.faults = @ - 1])}
               ELSE {})

\* the outcomes of a call, each continued by K unless it raised
Then(S, K(_)) == UNION { IF o.exc = "none" THEN K(o) ELSE {o} : o \in S }

(***************************************************************************)
(* TTransportBase: read is the method of the object's class; readAll is    *)
(* the generic loop over it.                                               *)
(***************************************************************************)
RECURSIVE read(_, _)
RECURSIVE readAll_loop(_, _, _, _)
RECURSIVE write(_, _)
RECURSIVE flush(_)
RECURSIVE isOpen(_)
RECURSIVE open(_)
RECURSIVE close(_)

\* one evaluation of the while loop of readAll with the locals have and buff
readAll_loop(t, sz, have, buff) ==
    IF have < sz
    THEN UNION { IF r.exc # "none"
                 THEN {Outcome(<< >>, r.exc, r.t)}
                 ELSE IF Len(r.ret) = 0
                      THEN {Outcome(<< >>, "EOFError", r.t)}
                      ELSE readAll_loop(r.t, sz, have + Len(r.ret), buff \o r.ret)
                 : r \in read(t, sz - have) }
    ELSE {Outcome(buff, "none", t)}

\* a readAll that returns what the first read gave
readAll_one_read(t, sz) ==
    IF sz > 0 THEN read(t, sz) ELSE {Outcome(<< >>, "none", t)}

\* a readAll that finds out beforehand that the stream is too short
readAll_fail_early(t, sz) ==
    LET all == readAll_loop(t, sz, 0, << >>)
    IN  {IF o.exc = "EOFError" THEN Outcome(<< >>, "EOFError", t) ELSE o : o \in all}

TTransportBase_readAll(t, sz) == readAll_loop(t, sz, 0, << >>)

(***************************************************************************)
(* TBufferedTransport.                                                     *)
(***************************************************************************)
DEFAULT_BUFFER == 4096

TBufferedTransport(t, rbuf_size) ==
    [kind |-> "buffered", trans |-> t, wbuf |-> BytesIO(<< >>),
     rbuf |-> BytesIO(<< >>), rbuf_size |-> rbuf_size]

\* a call on the wrapped transport, seen from the wrapping one
Lift(self, S) == {Outcome(o.ret, o.exc, [self EXCEPT !.trans = o.t]) : o \in S}

\* a read that fetches once more when the first fetch gave fewer bytes than
\* it was asked for
read_tops_up(t, sz) ==
    LET first == BytesIO_read(t.rbuf, sz)
        served(self, bytes) ==
            LET again == BytesIO_read(BytesIO(bytes), sz)
            IN  {Outcome(again.data, "none", [self EXCEPT !.rbuf = again.b])}
    IN  IF Len(first.data) # 0
        THEN {Outcome(first.data, "none", [t EXCEPT !.rbuf = first.b])}
        ELSE Then(Lift([t EXCEPT !.rbuf = first.b], read(t.trans, Max(sz, t.rbuf_size))),
                  LAMBDA u :
                     IF Len(u.ret) < sz
                     THEN Then(Lift(u.t, read(u.t.trans, sz - Len(u.ret))),
                               LAMBDA v : served(v.t, u.ret \o v.ret))
                     ELSE served(u.t, u.ret))

TBufferedTransport_read(t, sz) ==
    LET first == BytesIO_read(t.rbuf, sz)
    IN  IF Len(first.data) # 0
        THEN {Outcome(first.data, "none", [t EXCEPT !.rbuf = first.b])}
        ELSE { IF u.exc # "none"
               THEN Outcome(<< >>, u.exc, [t EXCEPT !.rbuf = first.b, !.trans = u.t])
               ELSE LET again == BytesIO_read(BytesIO(u.ret), sz)
                    IN  Outcome(again.data, "none",
                                [t EXCEPT !.rbuf = again.b, !.trans = u.t])
               : u \in read(t.trans, Max(sz, t.rbuf_size)) }

\* the buffer replaces the read buffer once it holds reqlen bytes; the value
\* returned is the content of the buffer
TBufferedTransport_cstringio_refill(self, partialread, reqlen) ==
    LET bulk == IF reqlen < self.rbuf_size
                THEN { Outcome(partialread \o r.ret, r.exc, r.t)
                         : r \in Lift(self, read(self.trans, self.rbuf_size)) }
                ELSE {Outcome(partialread, "none", self)}
    IN  Then(bulk, LAMBDA b :
        Then(IF Len(b.ret) < reqlen
             THEN { Outcome(b.ret \o r.ret, r.exc, r.t)
                      : r \in Lift(b.t, TTransportBase_readAll(b.t.trans, reqlen - Len(b.ret))) }
             ELSE {b},
             LAMBDA c : {Outcome(c.ret, "none", [c.t EXCEPT !.rbuf = BytesIO(c.ret)])}))

\* a write that hands the bytes on to the wrapped transport at once
write_through(self, buf) ==
    IF IsBytes(buf) THEN Lift(self, write(self.trans, buf))
    ELSE {Outcome(<< >>, "TypeError", self)}

TBufferedTransport_write(self, buf) ==
    IF IsBytes(buf)
    THEN {Outcome(<< >>, "none", [self EXCEPT !.wbuf = BytesIO_write(@, buf)])}
    ELSE {Outcome(<< >>, "TypeError", [self EXCEPT !.wbuf = BytesIO(<< >>)])}

TBufferedTransport_flush(self) ==
    LET out == BytesIO_getvalue(self.wbuf)
        reset == [self EXCEPT !.wbuf = BytesIO(<< >>)]
    IN  Then(Lift(reset, write(reset.trans, out)),
             LAMBDA w : Lift(w.t, flush(w.t.trans)))

(***************************************************************************)
(* TFramedTransport.                                                       *)
(***************************************************************************)
TFramedTransport(t) ==
    [kind |-> "framed", trans |-> t, rbuf |-> BytesIO(<< >>), wbuf |-> BytesIO(<< >>)]

TFramedTransport_readFrame(self) ==
    Then(Lift(self, TTransportBase_readAll(self.trans, 4)),
         LAMBDA h : { Outcome(<< >>, p.exc,
                              IF p.exc = "none"
                              THEN [p.t EXCEPT !.rbuf = BytesIO(p.ret)]
                              ELSE p.t)
                        : p \in Lift(h.t, TTransportBase_readAll(h.t.trans, unpack_i(h.ret))) })

TFramedTransport_read(self, sz) ==
    LET first == BytesIO_read(self.rbuf, sz)
    IN  IF Len(first.data) # 0
        THEN {Outcome(first.data, "none", [self EXCEPT !.rbuf = first.b])}
        ELSE Then(TFramedTransport_readFrame([self EXCEPT !.rbuf = first.b]),
                  LAMBDA f : LET again == BytesIO_read(f.t.rbuf, sz)
                             IN  {Outcome(again.data, "none", [f.t EXCEPT !.rbuf = again.b])})

RECURSIVE refill_drops_prefix(_, _, _)
\* a refill whose new buffer holds the frame read last and nothing before it
refill_drops_prefix(self, prefix, reqlen) ==
    IF Len(prefix) < reqlen
    THEN Then(TFramedTransport_readFrame(self),
              LAMBDA f : refill_drops_prefix(f.t, prefix \o BytesIO_getvalue(f.t.rbuf), reqlen))
    ELSE LET kept == Drop(prefix, Len(prefix) - Len(BytesIO_getvalue(self.rbuf)))
         IN  {Outcome(kept, "none", [self EXCEPT !.rbuf = BytesIO(kept)])}

RECURSIVE TFramedTransport_cstringio_refill(_, _, _)
\* one evaluation of the while loop, then the two statements after it
TFramedTransport_cstringio_refill(self, prefix, reqlen) ==
    IF Len(prefix) < reqlen
    THEN Then(TFramedTransport_readFrame(self),
              LAMBDA f : TFramedTransport_cstringio_refill(
                             f.t, prefix \o BytesIO_getvalue(f.t.rbuf), reqlen))
    ELSE {Outcome(prefix, "none", [self EXCEPT !.rbuf = BytesIO(prefix)])}

TFramedTransport_write(self, buf) ==
    IF IsBytes(buf)
    THEN {Outcome(<< >>, "none", [self EXCEPT !.wbuf = BytesIO_write(@, buf)])}
    ELSE {Outcome(<< >>, "TypeError", self)}

\* a flush whose length field counts the four bytes of the field as well
flush_counts_header(self) ==
    LET wout == BytesIO_getvalue(self.wbuf)
        wsz == Len(wout) + 4
        reset == [self EXCEPT !.wbuf = BytesIO(<< >>)]
        buf == pack_i(wsz) \o wout
    IN  Then(Lift(reset, write(reset.trans, buf)),
             LAMBDA w : Lift(w.t, flush(w.t.trans)))

\* a flush that empties the write buffer only once the frame is sent
flush_resets_after_send(self) ==
    LET wout == BytesIO_getvalue(self.wbuf)
        buf == pack_i(Len(wout)) \o wout
    IN  Then(Lift(self, write(self.trans, buf)), LAMBDA w :
        Then(Lift(w.t, flush(w.t.trans)),
             LAMBDA f : {Outcome(<< >>, "none", [f.t EXCEPT !.wbuf = BytesIO(<< >>)])}))

TFramedTransport_flush(self) ==
    LET wout == BytesIO_getvalue(self.wbuf)
        wsz == Len(wout)
        reset == [self EXCEPT !.wbuf = BytesIO(<< >>)]
        buf == pack_i(wsz) \o wout
    IN  Then(Lift(reset, write(reset.trans, buf)),
             LAMBDA w : Lift(w.t, flush(w.t.trans)))

(***************************************************************************)
(* The security engine, puresasl's SASLClient, as TSaslClientTransport     *)
(* uses it: process answers a challenge and may complete the negotiation,  *)
(* wrap and unwrap transform a message and may fail.                       *)
(***************************************************************************)
\* the first byte of a wrapped message
WrapTag == 170

\* the response of the engine: to no challenge one byte, to a challenge none
EngineResponse(challenge) == IF challenge = << >> THEN <<1>> ELSE << >>

SASLClient(mechanism) == [mechanism |-> mechanism, complete |-> FALSE, disposed |-> FALSE]

SASLClient_process(e, challenge) ==
    { Outcome(EngineResponse(challenge), "none", [e EXCEPT !.complete = c]) : c \in BOOLEAN }

\* a wrapped message: the tag, then the bytes transformed
Wrapped(data) == <<WrapTag>> \o [i \in 1..Len(data) |-> 255 - data[i]]

SASLClient_wrap(e, data) ==
    {Outcome(Wrapped(data), "none", e), Outcome(<< >>, "SASLError", e)}

SASLClient_unwrap(e, encoded) ==
    IF Len(encoded) > 0 /\ Head(encoded) = WrapTag
    THEN {Outcome([i \in 1..(Len(encoded) - 1) |-> 255 - encoded[i + 1]], "none", e)}
    ELSE {Outcome(<< >>, "SASLError", e)}

SASLClient_dispose(e) == {Outcome(<< >>, "none", [e EXCEPT !.disposed = TRUE])}

(***************************************************************************)
(* TSaslClientTransport.  Beside the fields of the class, the object keeps *)
(* in "trace" the calls it has made on its two collaborators, in order,    *)
(* each with the method that made it, and how each of its open() ended.    *)
(***************************************************************************)
START == 1
OK == 2
BAD == 3
ERROR == 4
COMPLETE == 5

\* one entry of the trace: the method that acted, what it did, the argument,
\* the value returned and the exception raised
Event(by, op, data, ret, exc) ==
    [by |-> by, op |-> op, data |-> data, ret |-> ret, exc |-> exc]

Traced(self, ev) == [self EXCEPT !.trace = Append(@, ev)]

TSaslClientTransport(transport, mechanism) ==
    [kind |-> "sasl", transport |-> transport, sasl |-> SASLClient(mechanism),
     wbuf |-> BytesIO(<< >>), rbuf |-> BytesIO(<< >>), trace |-> << >>]

\* self.transport.<op>(...) with outcomes S, called by method by
OnTransport(self, by, op, data, S) ==
    { Outcome(o.ret, o.exc,
              Traced([self EXCEPT !.transport = o.t], Event(by, op, data, o.ret, o.exc)))
        : o \in S }

\* self.sasl.<op>(...) with outcomes S, called by method by
OnSasl(self, by, op, data, S) ==
    { Outcome(o.ret, o.exc,
              Traced([self EXCEPT !.sasl = o.t], Event(by, op, data, o.ret, o.exc)))
        : o \in S }

\* the trace notes the call, with the status before the body
TSaslClientTransport_send_sasl_msg(self, by, status, body) ==
    LET header == pack_BI(status, Len(body))
        called == Traced(self, Event(by, "send_sasl_msg", <<status>> \o body, << >>, "none"))
    IN  Then(OnTransport(called, by, "transport.write", header \o body,
                         write(called.transport, header \o body)),
             LAMBDA w : OnTransport(w.t, by, "transport.flush", << >>, flush(w.t.transport)))

\* the trace notes the return, with the status before the payload
TSaslClientTransport_recv_sasl_msg(self, by) ==
    LET received(status, payload, t) ==
            Outcome([status |-> status, payload |-> payload], "none",
                    Traced(t, Event(by, "recv_sasl_msg", << >>, <<status>> \o payload, "none")))
    IN  Then(OnTransport(self, by, "transport.readAll", <<5>>,
                         TTransportBase_readAll(self.transport, 5)),
             LAMBDA h :
                LET hdr == unpack_BI(h.ret)
                IN  IF hdr.length > 0
                    THEN Then(OnTransport(h.t, by, "transport.readAll", <<hdr.length>>,
                                          TTransportBase_readAll(h.t.transport, hdr.length)),
                              LAMBDA p : {received(hdr.status, p.ret, p.t)})
                    ELSE {received(hdr.status, << >>, h.t)})

RECURSIVE open_loop_reads_on_after_bad_status(_)
\* a loop that takes a status other than OK and COMPLETE for a message to skip
open_loop_reads_on_after_bad_status(self) ==
    Then(TSaslClientTransport_recv_sasl_msg(self, "open"),
         LAMBDA m :
            IF m.ret.status = OK
            THEN Then(OnSasl(m.t, "open", "sasl.process", m.ret.payload,
                             SASLClient_process(m.t.sasl, m.ret.payload)),
                      LAMBDA p :
                         Then(TSaslClientTransport_send_sasl_msg(p.t, "open", OK, p.ret),
                              LAMBDA s : open_loop_reads_on_after_bad_status(s.t)))
            ELSE IF m.ret.status = COMPLETE
            THEN IF ~m.t.sasl.complete
                 THEN {Outcome(<< >>, "NOT_OPEN", m.t)}
                 ELSE {Outcome(<< >>, "none", m.t)}
            ELSE open_loop_reads_on_after_bad_status(m.t))

RECURSIVE open_loop_trusts_complete(_)
\* a loop that leaves on COMPLETE without asking the engine
open_loop_trusts_complete(self) ==
    Then(TSaslClientTransport_recv_sasl_msg(self, "open"),
         LAMBDA m :
            IF m.ret.status = OK
            THEN Then(OnSasl(m.t, "open", "sasl.process", m.ret.payload,
                             SASLClient_process(m.t.sasl, m.ret.payload)),
                      LAMBDA p :
                         Then(TSaslClientTransport_send_sasl_msg(p.t, "open", OK, p.ret),
                              LAMBDA s : open_loop_trusts_complete(s.t)))
            ELSE IF m.ret.status = COMPLETE
            THEN {Outcome(<< >>, "none", m.t)}
            ELSE {Outcome(<< >>, "NOT_OPEN", m.t)})

RECURSIVE open_loop_answers_twice(_)
\* a loop that sends its answer to a challenge twice
open_loop_answers_twice(self) ==
    Then(TSaslClientTransport_recv_sasl_msg(self, "open"),
         LAMBDA m :
            IF m.ret.status = OK
            THEN Then(OnSasl(m.t, "open", "sasl.process", m.ret.payload,
                             SASLClient_process(m.t.sasl, m.ret.payload)),
                      LAMBDA p :
                         Then(TSaslClientTransport_send_sasl_msg(p.t, "open", OK, p.ret),
                              LAMBDA s :
                         Then(TSaslClientTransport_send_sasl_msg(s.t, "open", OK, p.ret),
                              LAMBDA s2 : open_loop_answers_twice(s2.t))))
            ELSE IF m.ret.status = COMPLETE
            THEN IF ~m.t.sasl.complete
                 THEN {Outcome(<< >>, "NOT_OPEN", m.t)}
                 ELSE {Outcome(<< >>, "none", m.t)}
            ELSE {Outcome(<< >>, "NOT_OPEN", m.t)})

RECURSIVE TSaslClientTransport_open_loop(_)
\* the while True loop of open
TSaslClientTransport_open_loop(self) ==
    Then(TSaslClientTransport_recv_sasl_msg(self, "open"),
         LAMBDA m :
            IF m.ret.status = OK
            THEN Then(OnSasl(m.t, "open", "sasl.process", m.ret.payload,
                             SASLClient_process(m.t.sasl, m.ret.payload)),
                      LAMBDA p :
                         Then(TSaslClientTransport_send_sasl_msg(p.t, "open", OK, p.ret),
                              LAMBDA s : TSaslClientTransport_open_loop(s.t)))
            ELSE IF m.ret.status = COMPLETE
            THEN IF ~m.t.sasl.complete
                 THEN {Outcome(<< >>, "NOT_OPEN", m.t)}
                 ELSE {Outcome(<< >>, "none", m.t)}
            ELSE {Outcome(<< >>, "NOT_OPEN", m.t)})

TSaslClientTransport_open(self) ==
    LET called == Traced(self, Event("open", "open()", << >>, << >>, "none"))
        opened == IF ~isOpen(called.transport)
                  THEN OnTransport(called, "open", "transport.open", << >>,
                                   open(called.transport))
                  ELSE {Outcome(<< >>, "none", called)}
        body ==
            Then(opened, LAMBDA a :
            Then(TSaslClientTransport_send_sasl_msg(a.t, "open", START, a.t.sasl.mechanism),
                 LAMBDA b :
            Then(OnSasl(b.t, "open", "sasl.process", << >>,
                        SASLClient_process(b.t.sasl, << >>)), LAMBDA c :
            Then(TSaslClientTransport_send_sasl_msg(c.t, "open", OK, c.ret), LAMBDA d :
            TSaslClientTransport_open_loop(d.t)))))
    IN  { Outcome(o.ret, o.exc,
                  Traced(o.t, Event("open", IF o.exc = "none" THEN "return" ELSE "raise",
                                    << >>, << >>, o.exc)))
            : o \in body }

TSaslClientTransport_isOpen(self) == isOpen(self.transport)

TSaslClientTransport_write(self, data) ==
    IF IsBytes(data)
    THEN {Outcome(<< >>, "none", [self EXCEPT !.wbuf = BytesIO_write(@, data)])}
    ELSE {Outcome(<< >>, "TypeError", self)}

\* a flush whose length field holds the length of the bytes before wrapping
flush_length_of_plain(self) ==
    LET data == BytesIO_getvalue(self.wbuf)
    IN  Then(OnSasl(self, "flush", "sasl.wrap", data, SASLClient_wrap(self.sasl, data)),
             LAMBDA e :
        Then(OnTransport(e.t, "flush", "transport.write", pack_i(Len(data)) \o e.ret,
                         write(e.t.transport, pack_i(Len(data)) \o e.ret)), LAMBDA w :
        Then(OnTransport(w.t, "flush", "transport.flush", << >>, flush(w.t.transport)),
             LAMBDA f : {Outcome(<< >>, "none", [f.t EXCEPT !.wbuf = BytesIO(<< >>)])})))

TSaslClientTransport_flush(self) ==
    LET data == BytesIO_getvalue(self.wbuf)
    IN  Then(OnSasl(self, "flush", "sasl.wrap", data, SASLClient_wrap(self.sasl, data)),
             LAMBDA e :
        Then(OnTransport(e.t, "flush", "transport.write", pack_i(Len(e.ret)) \o e.ret,
                         write(e.t.transport, pack_i(Len(e.ret)) \o e.ret)), LAMBDA w :
        Then(OnTransport(w.t, "flush", "transport.flush", << >>, flush(w.t.transport)),
             LAMBDA f : {Outcome(<< >>, "none", [f.t EXCEPT !.wbuf = BytesIO(<< >>)])})))

TSaslClientTransport_read_frame(self) ==
    Then(OnTransport(self, "read", "transport.readAll", <<4>>,
                     TTransportBase_readAll(self.transport, 4)), LAMBDA h :
    Then(OnTransport(h.t, "read", "transport.readAll", <<unpack_i(h.ret)>>,
                     TTransportBase_readAll(h.t.transport, unpack_i(h.ret))), LAMBDA p :
    Then(OnSasl(p.t, "read", "sasl.unwrap", p.ret, SASLClient_unwrap(p.t.sasl, p.ret)),
         LAMBDA u : {Outcome(<< >>, "none", [u.t EXCEPT !.rbuf = BytesIO(u.ret)])})))

TSaslClientTransport_read(self, sz) ==
    LET first == BytesIO_read(self.rbuf, sz)
    IN  IF Len(first.data) # 0
        THEN {Outcome(first.data, "none", [self EXCEPT !.rbuf = first.b])}
        ELSE Then(TSaslClientTransport_read_frame([self EXCEPT !.rbuf = first.b]),
                  LAMBDA f : LET again == BytesIO_read(f.t.rbuf, sz)
                             IN  {Outcome(again.data, "none", [f.t EXCEPT !.rbuf = again.b])})

RECURSIVE TSaslClientTransport_cstringio_refill(_, _, _)
\* one evaluation of the while loop, then the two statements after it
TSaslClientTransport_cstringio_refill(self, prefix, reqlen) ==
    IF Len(prefix) < reqlen
    THEN Then(TSaslClientTransport_read_frame(self),
              LAMBDA f : TSaslClientTransport_cstringio_refill(
                             f.t, prefix \o BytesIO_getvalue(f.t.rbuf), reqlen))
    ELSE {Outcome(prefix, "none", [self EXCEPT !.rbuf = BytesIO(prefix)])}

\* a close that closes the underlying transport before it disposes the engine
close_transport_first(self) ==
    Then(OnTransport(self, "close", "transport.close", << >>, close(self.transport)),
         LAMBDA c : OnSasl(c.t, "close", "sasl.dispose", << >>,
                           SASLClient_dispose(c.t.sasl)))

TSaslClientTransport_close(self) ==
    Then(OnSasl(self, "close", "sasl.dispose", << >>, SASLClient_dispose(self.sasl)),
         LAMBDA d : OnTransport(d.t, "close", "transport.close", << >>,
                                close(d.t.transport)))

(***************************************************************************)
(* The methods of a transport, by the class of self.                       *)
(***************************************************************************)
read(t, sz) ==
    CASE t.kind = "file" -> TFileObjectTransport_read(t, sz)
      [] t.kind = "logfile" -> LoggedFile_read(t, sz)
      [] t.kind = "memory" -> TMemoryBuffer_read(t, sz)
      [] t.kind = "channel" -> Channel_read(t, sz)
      [] t.kind = "buffered" -> TBufferedTransport_read(t, sz)
      [] t.kind = "framed" -> TFramedTransport_read(t, sz)
      [] t.kind = "sasl" -> TSaslClientTransport_read(t, sz)

write(t, buf) ==
    CASE t.kind = "channel" -> Channel_write(t, buf)
      [] t.kind = "buffered" -> TBufferedTransport_write(t, buf)
      [] t.kind = "framed" -> TFramedTransport_write(t, buf)
      [] t.kind = "sasl" -> TSaslClientTransport_write(t, buf)

flush(t) ==
    CASE t.kind = "channel" -> Channel_flush(t)
      [] t.kind = "buffered" -> TBufferedTransport_flush(t)
      [] t.kind = "framed" -> TFramedTransport_flush(t)
      [] t.kind = "sasl" -> TSaslClientTransport_flush(t)

isOpen(t) ==
    CASE t.kind = "channel" -> Channel_isOpen(t)
      [] t.kind \in {"buffered", "framed"} -> isOpen(t.trans)
      [] t.kind = "sasl" -> TSaslClientTransport_isOpen(t)

open(t) ==
    CASE t.kind = "channel" -> Channel_open(t)
      [] t.kind \in {"buffered", "framed"} -> Lift(t, open(t.trans))
      [] t.kind = "sasl" -> TSaslClientTransport_open(t)

close(t) ==
    CASE t.kind = "channel" -> Channel_close(t)
      [] t.kind \in {"buffered", "framed"} -> Lift(t, close(t.trans))
      [] t.kind = "sasl" -> TSaslClientTransport_close(t)

cstringio_refill(t, partialread, reqlen) ==
    CASE t.kind = "memory" -> TMemoryBuffer_cstringio_refill(t, partialread, reqlen)
      [] t.kind = "buffered" -> TBufferedTransport_cstringio_refill(t, partialread, reqlen)
      [] t.kind = "framed" -> TFramedTransport_cstringio_refill(t, partialread, reqlen)
      [] t.kind = "sasl" -> TSaslClientTransport_cstringio_refill(t, partialread, reqlen)

\* the read buffer of a transport, its cstringio_buf
cstringio_buf(t) == IF t.kind = "memory" THEN t.buffer ELSE t.rbuf

RECURSIVE Deframed(_)
\* the payloads of the whole frames at the head of a byte string, one after
\* the other
Deframed(wire) ==
    IF Len(wire) < 4 THEN << >>
    ELSE LET sz == unpack_i(Take(wire, 4))
         IN  IF sz < 0 \/ Len(wire) < 4 + sz THEN << >>
             ELSE SubSeq(wire, 5, 4 + sz) \o Deframed(Drop(wire, 4 + sz))

\* a wrapped message without its tag, the bytes transformed back
Unwrapped(encoded) == [i \in 1..(Len(encoded) - 1) |-> 255 - encoded[i + 1]]

RECURSIVE SaslDeframed(_)
\* the payloads of the whole data frames at the head of a byte string, each
\* unwrapped, one after the other
SaslDeframed(wire) ==
    IF Len(wire) < 4 THEN << >>
    ELSE LET sz == unpack_i(Take(wire, 4))
         IN  IF sz < 1 \/ Len(wire) < 4 + sz THEN << >>
             ELSE Unwrapped(SubSeq(wire, 5, 4 + sz)) \o SaslDeframed(Drop(wire, 4 + sz))

\* the bytes a transport has yet to deliver: those buffered in it, then those
\* of the transport it wraps
RECURSIVE Pending(_)
Pending(t) ==
    CASE t.kind = "file" -> t.wire
      [] t.kind = "memory" -> BytesIO_rest(t.buffer)
      [] t.kind = "channel" -> t.wire
      [] t.kind = "buffered" -> BytesIO_rest(t.rbuf) \o Pending(t.trans)
      [] t.kind = "framed" -> BytesIO_rest(t.rbuf) \o Deframed(Pending(t.trans))
      [] t.kind = "logfile" -> t.wire
      [] t.kind = "sasl" -> BytesIO_rest(t.rbuf) \o SaslDeframed(Pending(t.transport))

RECURSIVE DeframedToEmpty(_)
\* the payloads of the whole frames at the head of a byte string up to the
\* first frame that has none
DeframedToEmpty(wire) ==
    IF Len(wire) < 4 THEN << >>
    ELSE LET sz == unpack_i(Take(wire, 4))
         IN  IF sz <= 0 \/ Len(wire) < 4 + sz THEN << >>
             ELSE SubSeq(wire, 5, 4 + sz) \o DeframedToEmpty(Drop(wire, 4 + sz))

\* the bytes still available on the stream of a transport: those its reads
\* deliver before one of them returns no byte, which is how a transport
\* tells the end of its stream
Available(t) ==
    IF t.kind = "framed"
    THEN BytesIO_rest(t.rbuf) \o DeframedToEmpty(Pending(t.trans))
    ELSE Pending(t)

(***************************************************************************)
(* The client of a transport: one transport object and a caller that calls *)
(* its methods one after the other.                                        *)
(*   trans   the transport object                                          *)
(*   pre     the transport object before the last call                     *)
(*   call    the last call: its name and argument                          *)
(*   result  what the last call returned or raised                         *)
(*   ncalls  the number of calls made, where the caller makes a bounded    *)
(*           number of them                                                *)
(***************************************************************************)
VARIABLES trans, pre, call, result, ncalls

vars == <<trans, pre, call, result, ncalls>>

NoCall == [name |-> "none", sz |-> 0, buf |-> << >>]
NoResult == [ret |-> << >>, exc |-> "none"]

Finish(name, sz, buf, o) ==
    /\ pre' = trans
    /\ call' = [name |-> name, sz |-> sz, buf |-> buf]
    /\ result' = [ret |-> o.ret, exc |-> o.exc]
    /\ trans' = o.t

(***************************************************************************)
(* Reading: a transport over a stream of up to MaxStream bytes, or a       *)
(* framed transport over up to MaxFrames frames, and a caller that calls   *)
(* read and readAll in any order.                                          *)
(***************************************************************************)
\* the payloads of the frames a framed reader finds on its channel
FramePayloads == {<< >>, <<1>>, <<2, 1>>}

RECURSIVE FramesWire(_)
\* the frames of a sequence of payloads as a peer's flush writes them
FramesWire(payloads) ==
    IF payloads = << >> THEN << >>
    ELSE pack_i(Len(Head(payloads))) \o Head(payloads) \o FramesWire(Tail(payloads))

ReadAllInit ==
    /\ trans \in UNION { {FileObject(b), TMemoryBuffer(b),
                           TBufferedTransport(FileObject(b), SmallWindow),
                           TBufferedTransport(FileObject(b), DEFAULT_BUFFER)}
                          : b \in SeqsUpTo(PayloadByte, MaxStream) }
                 \cup { TFramedTransport(FileObject(FramesWire(ps)))
                          : ps \in SeqsUpTo(FramePayloads, MaxFrames) }
    /\ pre = trans
    /\ call = NoCall
    /\ result = NoResult
    /\ ncalls = 0

CallRead ==
    /\ \E sz \in 1..(MaxStream + 1) : \E o \in read(trans, sz) : Finish("read", sz, << >>, o)
    /\ UNCHANGED ncalls

CallReadAll ==
    /\ \E sz \in 0..(MaxStream + 1) : \E o \in TTransportBase_readAll(trans, sz) :
          Finish("readAll", sz, << >>, o)
    /\ UNCHANGED ncalls

ReadAllNext == CallRead \/ CallReadAll

Spec == ReadAllInit /\ [][ReadAllNext]_vars

(***************************************************************************)
(* The SASL client: a TSaslClientTransport over a channel on which the     *)
(* peer has sent up to MaxPeerMsgs handshake messages followed by one data *)
(* frame, and then closed its side.  The caller makes up to                *)
(* MaxCalls calls of open, write, flush, read, close and isOpen in any     *)
(* order.                                                                  *)
(***************************************************************************)
\* the mechanism name, bytes(self.sasl.mechanism, 'ascii')
Mechanism == <<71>>

PeerMessages ==
    { [status |-> OK, payload |-> <<1>>],
      [status |-> COMPLETE, payload |-> << >>], [status |-> BAD, payload |-> <<1>>],
      [status |-> ERROR, payload |-> << >>], [status |-> START, payload |-> << >>] }

\* a peer's handshake message on the wire
PeerEncoded(m) == pack_BI(m.status, Len(m.payload)) \o m.payload

RECURSIVE PeerWire(_)
PeerWire(script) ==
    IF script = << >> THEN << >> ELSE PeerEncoded(Head(script)) \o PeerWire(Tail(script))

\* a peer's data frame carrying payload
PeerFrame(payload) == pack_i(Len(Wrapped(payload))) \o Wrapped(payload)

SaslInit ==
    /\ trans \in { TSaslClientTransport(Channel(isopen, PeerWire(script) \o PeerFrame(<<1, 2>>),
                                                faults),
                                        Mechanism)
                     : isopen \in BOOLEAN,
                       script \in SeqsUpTo(PeerMessages, MaxPeerMsgs),
                       faults \in {MaxFaults} }
    /\ pre = trans
    /\ call = NoCall
    /\ result = NoResult
    /\ ncalls = 0

SaslCall(name, sz, buf, S) ==
    /\ ncalls < MaxCalls
    /\ ncalls' = ncalls + 1
    /\ \E o \in S : Finish(name, sz, buf, o)

SaslOpen == SaslCall("open", 0, << >>, open(trans))

SaslWrite == SaslCall("write", 0, <<1>>, write(trans, <<1>>))

SaslFlush == SaslCall("flush", 0, << >>, flush(trans))

SaslRead == SaslCall("read", 1, << >>, read(trans, 1))

SaslClose == SaslCall("close", 0, << >>, close(trans))

SaslIsOpen == SaslCall("isOpen", 0, << >>, {Outcome(isOpen(trans), "none", trans)})

SaslNext == SaslOpen \/ SaslWrite \/ SaslFlush \/ SaslRead \/ SaslClose \/ SaslIsOpen

SaslSpec == SaslInit /\ [][SaslNext]_vars

WriterInit ==
    /\ trans \in UNION { {TBufferedTransport(Channel(isopen, << >>, MaxFaults), DEFAULT_BUFFER),
                           TFramedTransport(Channel(isopen, << >>, MaxFaults))}
                          : isopen \in BOOLEAN }
    /\ pre = trans
    /\ call = NoCall
    /\ result = NoResult
    /\ ncalls = 0

WriterCall(name, buf, S) ==
    /\ ncalls < MaxWriterCalls
    /\ ncalls' = ncalls + 1
    /\ \E o \in S : Finish(name, 0, buf, o)

WriterWrite ==
    \E buf \in SeqsUpTo(PayloadByte, MaxWrite) \cup {NotBytes} :
        WriterCall("write", buf, write(trans, buf))

WriterFlush == WriterCall("flush", << >>, flush(trans))

WriterNext == WriterWrite \/ WriterFlush

WriterSpec == WriterInit /\ [][WriterNext]_vars

(***************************************************************************)
(* A framed link: a TFramedTransport that writes and its peer, a           *)
(* TFramedTransport that reads what the first has flushed, over one        *)
(* channel.  The reader blocks while the channel holds nothing for it: it  *)
(* reads when bytes are pending, and calls readAll for no more bytes than  *)
(* are pending.                                                            *)
(***************************************************************************)
Link(writer, reader) == [kind |-> "link", writer |-> writer, reader |-> reader]

LinkInit ==
    /\ trans = Link(TFramedTransport(Channel(TRUE, << >>, 0)),
                    TFramedTransport(FileObject(<< >>)))
    /\ pre = trans
    /\ call = NoCall
    /\ result = NoResult
    /\ ncalls = 0

LinkCall(name, sz, buf, o, link) ==
    /\ ncalls < MaxLinkCalls
    /\ ncalls' = ncalls + 1
    /\ Finish(name, sz, buf, Outcome(o.ret, o.exc, link))

LinkWrite ==
    \E buf \in SeqsUpTo(PayloadByte, MaxWrite) : \E o \in write(trans.writer, buf) :
        LinkCall("write", 0, buf, o, [trans EXCEPT !.writer = o.t])

\* what the flush has written to the channel reaches the reader's side
LinkFlush ==
    \E o \in flush(trans.writer) :
        LET old == Len(trans.writer.trans.sent)
            new == o.t.trans.sent
            arrived == IF Len(new) > old THEN new[Len(new)] ELSE << >>
        IN  LinkCall("flush", 0, << >>, o,
                     [trans EXCEPT !.writer = o.t, !.reader.trans.wire = @ \o arrived])

LinkRead ==
    /\ Len(Pending(trans.reader)) > 0
    /\ \E sz \in 1..MaxLinkRead : \E o \in read(trans.reader, sz) :
          LinkCall("read", sz, << >>, o, [trans EXCEPT !.reader = o.t])

LinkReadAll ==
    \E sz \in 1..MaxLinkRead :
        /\ sz <= Len(Pending(trans.reader))
        /\ \E o \in TTransportBase_readAll(trans.reader, sz) :
              LinkCall("readAll", sz, << >>, o, [trans EXCEPT !.reader = o.t])

LinkNext == LinkWrite \/ LinkFlush \/ LinkRead \/ LinkReadAll

LinkSpec == LinkInit /\ [][LinkNext]_vars

(***************************************************************************)
(* The handshake of TSaslClientTransport, read off the trace.              *)
(***************************************************************************)
trace == trans.trace

\* the entries of the trace that are handshake messages sent or received
IsSend(e) == e.op = "send_sasl_msg"
IsRecv(e) == e.op = "recv_sasl_msg"
SentStatus(e) == e.data[1]
SentBody(e) == Tail(e.data)
RecvStatus(e) == e.ret[1]
RecvPayload(e) == Tail(e.ret)

\* the index of the entry "open()" of the call of open that entry i belongs to
OpenOf(i) ==
    LET starts == {k \in 1..i : trace[k].op = "open()"}
    IN  CHOOSE k \in starts : \A j \in starts : j <= k

\* entry i is where an open returned normally
IsOpenReturn(i) == trace[i].by = "open" /\ trace[i].op = "return"

\* entry i is where an open raised
IsOpenRaise(i) == trace[i].by = "open" /\ trace[i].op = "raise"

\* C3: the engine's wrap is called and a data frame is written to the
\* underlying transport only after an open() has returned normally, also
\* when flush() is called before open() or after a failed open().
C3_NoFrameBeforeHandshake ==
    \A i \in DOMAIN trace :
        (trace[i].by = "flush" /\ trace[i].op \in {"sasl.wrap", "transport.write"})
            => \E j \in 1..(i - 1) : IsOpenReturn(j)

\* C4: a message received in open() with a status other than OK and
\* COMPLETE is followed at once by open() raising NOT_OPEN: nothing is sent
\* and nothing is read between the two.
C4_BadStatusAborts ==
    \A i \in DOMAIN trace :
        (trace[i].by = "open" /\ IsRecv(trace[i]) /\ RecvStatus(trace[i]) \notin {OK, COMPLETE})
            => /\ i < Len(trace)
               /\ IsOpenRaise(i + 1)
               /\ trace[i + 1].exc = "NOT_OPEN"

\* an open has received BAD in its second round and has raised
C4_Witness ==
    /\ call.name = "open" /\ result.exc = "NOT_OPEN"
    /\ \E i, j \in DOMAIN trace :
          /\ i < j /\ OpenOf(i) = OpenOf(j)
          /\ IsRecv(trace[i]) /\ RecvStatus(trace[i]) = OK
          /\ IsRecv(trace[j]) /\ RecvStatus(trace[j]) = BAD
          /\ j + 1 = Len(trace)

\* C5: an open() that receives COMPLETE while the engine reports that it is
\* not complete raises NOT_OPEN, and an open() returns normally only right
\* after it has received COMPLETE with the engine reporting complete.
C5_CompleteNeedsEngine ==
    /\ \A i \in DOMAIN trace :
          (trace[i].by = "open" /\ IsRecv(trace[i]) /\ RecvStatus(trace[i]) = COMPLETE)
              => /\ i < Len(trace)
                 /\ \/ IsOpenReturn(i + 1)
                    \/ IsOpenRaise(i + 1) /\ trace[i + 1].exc = "NOT_OPEN"
    /\ \A i \in DOMAIN trace :
          IsOpenReturn(i)
              => /\ i > 1
                 /\ IsRecv(trace[i - 1]) /\ RecvStatus(trace[i - 1]) = COMPLETE
    /\ call.name = "open"
          => LET last == trace[Len(trace) - 1]
             IN  /\ result.exc = "none" => trans.sasl.complete
                 /\ (IsRecv(last) /\ RecvStatus(last) = COMPLETE /\ ~trans.sasl.complete)
                        => result.exc = "NOT_OPEN"

\* one open has returned normally, another has raised on a premature COMPLETE
C5_Witness ==
    /\ \E i \in DOMAIN trace : IsOpenReturn(i)
    /\ call.name = "open" /\ result.exc = "NOT_OPEN"
    /\ IsRecv(trace[Len(trace) - 1]) /\ RecvStatus(trace[Len(trace) - 1]) = COMPLETE
    /\ ~trans.sasl.complete

\* the handshake messages of the call of open that starts at entry k, up to
\* entry i
MessagesOf(k, i) == {j \in k..i : IsSend(trace[j]) \/ IsRecv(trace[j])}
SendsOf(k, i) == {j \in k..i : IsSend(trace[j])}
OKsOf(k, i) == {j \in k..i : IsRecv(trace[j]) /\ RecvStatus(trace[j]) = OK}

\* the last entry before i that satisfies P, or 0
LastBefore(i, P(_)) ==
    LET S == {j \in 1..(i - 1) : P(trace[j])}
    IN  IF S = {} THEN 0 ELSE CHOOSE j \in S : \A h \in S : h <= j

IsMessage(e) == IsSend(e) \/ IsRecv(e)
IsProcess(e) == e.op = "sasl.process"

\* C6: open() opens the underlying transport if it is not open, then sends
\* START with the mechanism name, then one OK with the engine's initial
\* response, and only then receives; each OK received is answered by one OK
\* carrying the engine's response to that challenge before the next receive.
\* Whenever a message is received and when open() returns, the messages sent
\* number 2 plus the OKs received before, and nothing is sent after COMPLETE.
C6_HandshakeOrder ==
    /\ call.name = "open"
          => LET k == OpenOf(Len(trace))
             IN  (trace[k + 1].op = "transport.open") <=> ~isOpen(pre.transport)
    /\ \A i \in DOMAIN trace :
          LET k == OpenOf(i)
              e == trace[i]
              before == Cardinality(SendsOf(k, i - 1))
              prevMsg == LastBefore(i, IsMessage)
              prevProc == LastBefore(i, IsProcess)
          IN  /\ (e.by = "open" /\ IsSend(e) /\ before = 0)
                    => /\ SentStatus(e) = START /\ SentBody(e) = trans.sasl.mechanism
                       /\ MessagesOf(k, i - 1) = {}
              /\ (e.by = "open" /\ IsSend(e) /\ before = 1)
                    => /\ SentStatus(e) = OK
                       /\ prevProc > k /\ trace[prevProc].data = << >>
                       /\ SentBody(e) = trace[prevProc].ret
                       /\ IsSend(trace[prevMsg])
              /\ (e.by = "open" /\ IsSend(e) /\ before >= 2)
                    => /\ SentStatus(e) = OK
                       /\ IsRecv(trace[prevMsg]) /\ RecvStatus(trace[prevMsg]) = OK
                       /\ prevProc > prevMsg
                       /\ trace[prevProc].data = RecvPayload(trace[prevMsg])
                       /\ SentBody(e) = trace[prevProc].ret
              /\ (e.by = "open" /\ (IsRecv(e) \/ IsOpenReturn(i)))
                    => Cardinality(SendsOf(k, i)) = 2 + Cardinality(OKsOf(k, i - 1))
              /\ (e.by = "open" /\ IsRecv(e) /\ RecvStatus(e) = COMPLETE)
                    => \A j \in (i + 1)..Len(trace) :
                          OpenOf(j) = k => ~IsSend(trace[j])

\* an open has opened the channel, received an OK and then COMPLETE, and has
\* returned after three messages sent
C6_Witness ==
    /\ call.name = "open" /\ result.exc = "none"
    /\ ~isOpen(pre.transport)
    /\ Cardinality(OKsOf(OpenOf(Len(trace)), Len(trace))) = 1
    /\ Cardinality(SendsOf(OpenOf(Len(trace)), Len(trace))) = 3

\* some open has failed on a bad status or on a premature COMPLETE
HandshakeFailedAt(i) ==
    /\ IsOpenRaise(i) /\ trace[i].exc = "NOT_OPEN"
    /\ i > 1 /\ IsRecv(trace[i - 1])

\* C7: once an open() has raised on a bad status or a premature COMPLETE the
\* transport does not report itself open, and no later open(), write(),
\* flush() or read() exchanges bytes with the peer.
C7_FailedHandshakeIsTerminal ==
    \A i \in DOMAIN trace :
        HandshakeFailedAt(i)
            => /\ ~isOpen(trans)
               /\ \A j \in (i + 1)..Len(trace) :
                     ~(trace[j].op \in {"transport.write", "transport.readAll"})

\* C9: a flush() of the SASL transport that fails, in wrap or in the write
\* or the flush of the underlying transport, leaves the write buffer empty.
C9_SaslFlushClearsFirst ==
    (call.name = "flush" /\ result.exc # "none")
        => BytesIO_getvalue(trans.wbuf) = << >>

(***************************************************************************)
(* flush of the buffered and of the framed transport when the channel      *)
(* fails.                                                                  *)
(***************************************************************************)
\* the frame flush makes of the buffered bytes: the bytes themselves for the
\* buffered transport, the length and the bytes for the framed one
Flushed(t) ==
    IF t.kind = "framed"
    THEN pack_i(Len(BytesIO_getvalue(t.wbuf))) \o BytesIO_getvalue(t.wbuf)
    ELSE BytesIO_getvalue(t.wbuf)

\* C8: after every flush() of a TBufferedTransport or a TFramedTransport,
\* failed or not, the write buffer is empty, so that a later flush() has
\* nothing of it to send again; a flush makes at most one underlying write,
\* of the bytes buffered before it, and a failure of the channel is raised,
\* not retried.
C8_FlushClearsBeforeSend ==
    call.name = "flush"
        => /\ BytesIO_getvalue(trans.wbuf) = << >>
           /\ Len(trans.trans.sent) <= Len(pre.trans.sent) + 1
           /\ Len(trans.trans.sent) = Len(pre.trans.sent) + 1
                 => trans.trans.sent = Append(pre.trans.sent, Flushed(pre))
           /\ result.exc = "none"
                 => /\ Len(trans.trans.sent) = Len(pre.trans.sent) + 1
                    /\ trans.trans.flushes = pre.trans.flushes + 1
           /\ trans.trans.faults < pre.trans.faults => result.exc = "OSError"

\* a flush of a framed transport with bytes buffered has failed in the
\* underlying write
C8_Witness ==
    /\ call.name = "flush" /\ result.exc = "OSError"
    /\ pre.kind = "framed" /\ BytesIO_getvalue(pre.wbuf) # << >>
    /\ trans.trans.sent = pre.trans.sent

(***************************************************************************)
(* The round trip over a framed link.                                      *)
(***************************************************************************)
\* C10: every flush of the writer puts on the channel the length of the
\* payload and the payload, and adds the payload to what the reader has yet
\* to deliver; every read of the reader returns the next pending bytes, and
\* every readAll(n) with n no more than the bytes pending returns exactly the
\* next n of them.
C10_FramedRoundTrip ==
    /\ call.name = "flush"
          => LET P == BytesIO_getvalue(pre.writer.wbuf)
                 frame == trans.writer.trans.sent[Len(trans.writer.trans.sent)]
             IN  /\ Len(trans.writer.trans.sent) = Len(pre.writer.trans.sent) + 1
                 /\ Len(frame) = 4 + Len(P)
                 /\ unpack_i(Take(frame, 4)) = Len(P)
                 /\ Drop(frame, 4) = P
                 /\ Pending(trans.reader) = Pending(pre.reader) \o P
    /\ call.name \in {"read", "readAll"}
          => /\ result.exc = "none"
             /\ result.ret = Take(Pending(pre.reader), Len(result.ret))
             /\ Pending(trans.reader) = Drop(Pending(pre.reader), Len(result.ret))
    /\ call.name = "readAll" => Len(result.ret) = call.sz

(***************************************************************************)
(* What write and flush of the framed and of the buffered transport put on *)
(* the channel.                                                            *)
(***************************************************************************)
\* C11: write() of a TFramedTransport writes nothing to the underlying
\* transport and appends its bytes to the write buffer; flush() makes one
\* underlying write, of a 4-byte big-endian header holding the length of the
\* payload alone, followed by the payload, the bytes written since the
\* previous flush in order.
C11_FramedFlushOneFrame ==
    pre.kind = "framed"
        => /\ call.name = "write"
                 => /\ trans.trans = pre.trans
                    /\ result.exc = "none"
                          => BytesIO_getvalue(trans.wbuf)
                                = BytesIO_getvalue(pre.wbuf) \o call.buf
           /\ call.name = "flush"
                 => LET P == BytesIO_getvalue(pre.wbuf)
                        sent == trans.trans.sent
                    IN  /\ Len(sent) <= Len(pre.trans.sent) + 1
                        /\ SubSeq(sent, 1, Len(pre.trans.sent)) = pre.trans.sent
                        /\ result.exc = "none" => Len(sent) = Len(pre.trans.sent) + 1
                        /\ Len(sent) = Len(pre.trans.sent) + 1
                              => /\ Len(sent[Len(sent)]) = 4 + Len(P)
                                 /\ Take(sent[Len(sent)], 4) = <<0, 0, 0, Len(P)>>
                                 /\ Drop(sent[Len(sent)], 4) = P

\* a flush has sent the frame of two bytes written one by one
C11_Witness ==
    /\ pre.kind = "framed" /\ call.name = "flush" /\ result.exc = "none"
    /\ BytesIO_getvalue(pre.wbuf) = <<1, 2>>
    /\ trans.trans.sent = <<(<<0, 0, 0, 2, 1, 2>>)>>

\* C12: write() of a TBufferedTransport leaves the underlying channel as it
\* was; flush() makes one underlying write, of the bytes written since the
\* previous flush in order, then one flush of the underlying channel, and
\* leaves the write buffer empty.
C12_BufferedWriteCoalesced ==
    pre.kind = "buffered"
        => /\ call.name = "write"
                 => /\ trans.trans = pre.trans
                    /\ result.exc = "none"
                          => BytesIO_getvalue(trans.wbuf)
                                = BytesIO_getvalue(pre.wbuf) \o call.buf
           /\ call.name = "flush"
                 => /\ BytesIO_getvalue(trans.wbuf) = << >>
                    /\ Len(trans.trans.sent) <= Len(pre.trans.sent) + 1
                    /\ trans.trans.flushes <= pre.trans.flushes + 1
                    /\ trans.trans.flushes = pre.trans.flushes + 1
                          => Len(trans.trans.sent) = Len(pre.trans.sent) + 1
                    /\ Len(trans.trans.sent) = Len(pre.trans.sent) + 1
                          => trans.trans.sent
                                = Append(pre.trans.sent, BytesIO_getvalue(pre.wbuf))
                    /\ result.exc = "none"
                          => trans.trans.flushes = pre.trans.flushes + 1

\* a flush has sent in one write the two bytes of two writes
C12_Witness ==
    /\ pre.kind = "buffered" /\ call.name = "flush" /\ result.exc = "none"
    /\ BytesIO_getvalue(pre.wbuf) = <<2, 1>>
    /\ trans.trans.sent = <<(<<2, 1>>)>>
    /\ trans.trans.flushes = 1

\* C15: a write() that fails leaves the write buffer of a buffering
\* transport empty, so that a later flush sends nothing of what was
\* buffered before the failure.
C15_FailedWriteResetsBuffer ==
    (call.name = "write" /\ result.exc # "none")
        => BytesIO_getvalue(trans.wbuf) = << >>

(***************************************************************************)
(* What a read of no byte means.                                           *)
(***************************************************************************)
\* C13: read(max) with max > 0 returns between 1 and max bytes unless the
\* stream is at its end: it returns no byte only when no byte is left to
\* deliver, also on a framed stream that holds a frame without payload
\* before other frames; and readAll raises the end-of-stream error only
\* when fewer bytes are left than it was asked for.
C13_ZeroBytesOnlyAtEOF ==
    /\ (call.name = "read" /\ call.sz > 0 /\ result.exc = "none")
          => /\ Len(result.ret) <= call.sz
             /\ Len(result.ret) = 0 => Pending(pre) = << >>
    /\ (call.name = "readAll" /\ result.exc = "EOFError")
          => call.sz > Len(Pending(pre))

(***************************************************************************)
(* close of the SASL transport.                                            *)
(***************************************************************************)
\* C19: close() of the SASL transport disposes the engine, then closes the
\* underlying transport, and does nothing else: after it the underlying
\* transport is closed and isOpen() is false, nothing was written to the
\* channel or read from it, and bytes written and not flushed stay unsent
\* in the write buffer.
C19_CloseDisposesThenCloses ==
    call.name = "close"
        => LET n == Len(pre.trace)
           IN  /\ result.exc = "none"
               /\ Len(trace) = n + 2
               /\ SubSeq(trace, 1, n) = pre.trace
               /\ trace[n + 1].by = "close" /\ trace[n + 1].op = "sasl.dispose"
               /\ trace[n + 2].by = "close" /\ trace[n + 2].op = "transport.close"
               /\ trans.sasl.disposed
               /\ ~isOpen(trans) /\ ~isOpen(trans.transport)
               /\ trans.transport.sent = pre.transport.sent
               /\ trans.transport.flushes = pre.transport.flushes
               /\ trans.transport.wire = pre.transport.wire
               /\ trans.wbuf = pre.wbuf

\* a close of an open transport that holds a byte written and not flushed
C19_Witness ==
    /\ call.name = "close" /\ result.exc = "none"
    /\ isOpen(pre) /\ ~isOpen(trans)
    /\ BytesIO_getvalue(pre.wbuf) = <<1>>
    /\ trans.transport.sent = << >>

(***************************************************************************)
(* The length field of a frame: a framed reader over a channel that holds  *)
(* one header of four bytes, of any sign when read as a signed number, and *)
(* up to MaxHeaderBody bytes after it.                                     *)
(***************************************************************************)
\* the length fields, as the signed numbers they are packed from
HeaderValues == {-2147483647 - 1, -2, -1, 0, 1, 2, 3}

HeaderInit ==
    /\ trans \in { TFramedTransport(FileObject(pack_i(n) \o body))
                     : n \in HeaderValues, body \in SeqsUpTo(PayloadByte, MaxHeaderBody) }
    /\ pre = trans
    /\ call = NoCall
    /\ result = NoResult
    /\ ncalls = 0

HeaderSpec == HeaderInit /\ [][ReadAllNext]_vars

\* C17: a read of a TFramedTransport that has to read a frame takes the four
\* bytes of the header for an unsigned big-endian length L and reads exactly
\* the L bytes after it into the read buffer, or fails with the
\* end-of-stream error when fewer than L bytes follow, as they do when the
\* high bit of the header is set (L >= 2^31) and a few bytes follow.
C17_HeaderIsUnsigned ==
    (/\ call.name = "read" /\ pre.kind = "framed"
     /\ BytesIO_rest(pre.rbuf) = << >> /\ Len(pre.trans.wire) >= 4)
        => LET h == Take(pre.trans.wire, 4)
               body == Drop(pre.trans.wire, 4)
               L == h[2] * 65536 + h[3] * 256 + h[4]
           IN  IF h[1] > 0 \/ Len(body) < L
               THEN result.exc = "EOFError"
               ELSE /\ result.exc = "none"
                    /\ trans.rbuf.value = Take(body, L)
                    /\ trans.trans.wire = Drop(body, L)

(***************************************************************************)
(* The lease of the read buffer: a transport over a file object, and a     *)
(* caller that makes up to MaxLeaseCalls calls of read, readAll and        *)
(* cstringio_refill in any order.  Beside the transport the state keeps    *)
(* the stream the transport was given and the bytes delivered so far; the  *)
(* file object under a buffered transport notes the sizes asked of it      *)
(* during the last call.                                                   *)
(***************************************************************************)
Reader(t) == [kind |-> "reader", t |-> t, stream |-> Pending(t), delivered |-> << >>]

\* the streams under the unframed transports: n bytes, no two of them alike
LeaseStream(n) == [i \in 1..n |-> i]

\* a peer's data frames on the wire
RECURSIVE PeerFrames(_)
PeerFrames(payloads) ==
    IF payloads = << >> THEN << >>
    ELSE PeerFrame(Head(payloads)) \o PeerFrames(Tail(payloads))

RECURSIVE ClearAsked(_)
\* the transport with the notes of its file object wiped
ClearAsked(t) ==
    CASE t.kind = "logfile" -> [t EXCEPT !.asked = << >>]
      [] t.kind \in {"buffered", "framed"} -> [t EXCEPT !.trans = ClearAsked(@)]
      [] t.kind = "sasl" -> [t EXCEPT !.transport = ClearAsked(@)]
      [] OTHER -> t

\* the transport with b for its read buffer
WithBuf(t, b) == IF t.kind = "memory" THEN [t EXCEPT !.buffer = b] ELSE [t EXCEPT !.rbuf = b]

\* the payload bytes still on the channel under a transport, past its read
\* buffer
UnderStream(t) == Pending(WithBuf(t, BytesIO(<< >>)))

LeaseInit ==
    /\ trans \in UNION { {Reader(TBufferedTransport(LoggedFile(b), SmallWindow)),
                           Reader(TBufferedTransport(LoggedFile(b), DEFAULT_BUFFER)),
                           Reader(TMemoryBuffer(b))}
                          : b \in {LeaseStream(n) : n \in 0..MaxLeaseStream} }
                 \cup UNION { {Reader(TFramedTransport(FileObject(FramesWire(ps)))),
                                Reader(TSaslClientTransport(FileObject(PeerFrames(ps)),
                                                            Mechanism))}
                               : ps \in SeqsUpTo(FramePayloads, MaxLeaseFrames) }
    /\ pre = trans
    /\ call = NoCall
    /\ result = NoResult
    /\ ncalls = 0

LeaseCall(name, sz, buf, o, given) ==
    /\ ncalls < MaxLeaseCalls
    /\ ncalls' = ncalls + 1
    /\ Finish(name, sz, buf,
              Outcome(o.ret, o.exc, [trans EXCEPT !.t = o.t, !.delivered = @ \o given]))

LeaseRead ==
    \E sz \in 1..MaxLeaseRead : \E o \in read(ClearAsked(trans.t), sz) :
        LeaseCall("read", sz, << >>, o, o.ret)

LeaseReadAll ==
    \E sz \in 1..MaxLeaseRead : \E o \in TTransportBase_readAll(ClearAsked(trans.t), sz) :
        LeaseCall("readAll", sz, << >>, o, o.ret)

\* the caller asks for a buffer of reqlen bytes: either after it has taken
\* from the current buffer what was left there, fewer than reqlen bytes,
\* which it hands in as the partial read, or with nothing taken and nothing
\* handed in
LeaseRefill ==
    \E reqlen \in 1..MaxLeaseRead, drained \in BOOLEAN :
        LET t0 == ClearAsked(trans.t)
            taken == BytesIO_read(cstringio_buf(t0), reqlen)
            partial == IF drained THEN taken.data ELSE << >>
            t1 == IF drained THEN WithBuf(t0, taken.b) ELSE t0
        IN  /\ drained => Len(taken.data) < reqlen
            /\ \E o \in cstringio_refill(t1, partial, reqlen) :
                  LeaseCall("refill", reqlen, partial, o, << >>)

LeaseNext == LeaseRead \/ LeaseReadAll \/ LeaseRefill

LeaseSpec == LeaseInit /\ [][LeaseNext]_vars

\* C14: cstringio_refill(partial, reqlen) of the buffered, the framed and
\* the SASL transport either returns a buffer that starts with partial,
\* holds at least reqlen bytes, continues after partial with the next bytes
\* of the stream under the transport in order, and is the transport's read
\* buffer from then on; or it raises the end-of-stream error, which it does
\* only when the stream is too short.  That of TMemoryBuffer always raises
\* the end-of-stream error.
C14_RefillContract ==
    call.name = "refill"
        => LET partial == call.buf
               src == UnderStream(pre.t)
               more == Len(result.ret) - Len(partial)
           IN  /\ result.exc \in {"none", "EOFError"}
               /\ pre.t.kind = "memory" => result.exc = "EOFError"
               /\ result.exc = "none"
                     => /\ Len(result.ret) >= call.sz
                        /\ more >= 0 /\ more <= Len(src)
                        /\ Take(result.ret, Len(partial)) = partial
                        /\ Drop(result.ret, Len(partial)) = Take(src, more)
                        /\ cstringio_buf(trans.t) = BytesIO(result.ret)
                        /\ UnderStream(trans.t) = Drop(src, more)
               /\ (result.exc = "EOFError" /\ pre.t.kind # "memory")
                     => Len(partial) + Len(src) < call.sz

\* a refill of a framed transport has joined a partial read of one byte and
\* the payload of the next frame
C14_Witness ==
    /\ call.name = "refill" /\ result.exc = "none"
    /\ pre.t.kind = "framed"
    /\ call.sz = 2 /\ Len(call.buf) = 1
    /\ Len(result.ret) >= 2

\* C16: a read(sz) of a TBufferedTransport whose read buffer holds unread
\* bytes returns up to sz of them and asks nothing of the underlying
\* transport; one whose read buffer is exhausted asks the underlying
\* transport once, for max(sz, rbuf_size) bytes, makes what it gets the new
\* read buffer and returns up to sz bytes of it.
C16_ReadOneFetch ==
    (call.name = "read" /\ pre.kind = "reader" /\ pre.t.kind = "buffered")
        => LET rest == BytesIO_rest(pre.t.rbuf)
               asked == trans.t.trans.asked
               got == Len(pre.t.trans.wire) - Len(trans.t.trans.wire)
           IN  /\ result.exc = "none"
               /\ rest # << >>
                     => /\ asked = << >>
                        /\ trans.t.trans.wire = pre.t.trans.wire
                        /\ result.ret = Take(rest, Min(call.sz, Len(rest)))
                        /\ BytesIO_rest(trans.t.rbuf) = Drop(rest, Len(result.ret))
               /\ rest = << >>
                     => /\ asked = <<Max(call.sz, pre.t.rbuf_size)>>
                        /\ trans.t.trans.wire = Drop(pre.t.trans.wire, got)
                        /\ BytesIO_getvalue(trans.t.rbuf) = Take(pre.t.trans.wire, got)
                        /\ result.ret = Take(pre.t.trans.wire, Min(call.sz, got))
                        /\ BytesIO_rest(trans.t.rbuf)
                              = Drop(BytesIO_getvalue(trans.t.rbuf), Len(result.ret))

\* a read(2) with the default window has asked once, for 4096 bytes, and
\* returned the two bytes it asked for out of the three fetched
C16_Witness ==
    /\ call.name = "read" /\ call.sz = 2
    /\ pre.kind = "reader" /\ pre.t.kind = "buffered"
    /\ pre.t.rbuf_size = DEFAULT_BUFFER
    /\ trans.t.trans.asked = <<4096>>
    /\ Len(result.ret) = 2 /\ Len(BytesIO_getvalue(trans.t.rbuf)) = 3

\* C20: whatever calls of read, readAll and cstringio_refill are made on a
\* TBufferedTransport or a TFramedTransport, the bytes delivered so far are
\* the first bytes of the payload stream the transport was given.
C20_DeliveredIsPrefix ==
    (trans.kind = "reader" /\ trans.t.kind \in {"buffered", "framed"})
        => /\ Len(trans.delivered) <= Len(trans.stream)
           /\ trans.delivered = Take(trans.stream, Len(trans.delivered))

(***************************************************************************)
(* A secured link: two TSaslClientTransport, one that writes and one that  *)
(* reads what the first has flushed.  Each end finds on its channel the    *)
(* COMPLETE of its handshake; the caller opens an end before it writes to  *)
(* it, flushes it or reads from it, and makes up to MaxSecureCalls calls.  *)
(* The reader blocks while its channel and its read buffer hold nothing.   *)
(***************************************************************************)
\* the byte strings written to the secured link
SecurePayloads == {<<1>>, <<1, 2>>}

\* an open of the transport has returned
HandshakeDone(t) ==
    \E i \in DOMAIN t.trace : t.trace[i].by = "open" /\ t.trace[i].op = "return"

SecureInit ==
    /\ trans = Link(TSaslClientTransport(
                        Channel(TRUE, PeerWire(<<[status |-> COMPLETE, payload |-> << >>]>>),
                                MaxFaults), Mechanism),
                    TSaslClientTransport(
                        Channel(TRUE, PeerWire(<<[status |-> COMPLETE, payload |-> << >>]>>),
                                0), Mechanism))
    /\ pre = trans
    /\ call = NoCall
    /\ result = NoResult
    /\ ncalls = 0

SecureCall(name, sz, buf, o, link) ==
    /\ ncalls < MaxSecureCalls
    /\ ncalls' = ncalls + 1
    /\ Finish(name, sz, buf, Outcome(o.ret, o.exc, link))

SecureOpenWriter ==
    /\ ~HandshakeDone(trans.writer)
    /\ \E o \in open(trans.writer) :
          SecureCall("open", 0, << >>, o, [trans EXCEPT !.writer = o.t])

SecureOpenReader ==
    /\ ~HandshakeDone(trans.reader)
    /\ \E o \in open(trans.reader) :
          SecureCall("open", 1, << >>, o, [trans EXCEPT !.reader = o.t])

SecureWrite ==
    /\ HandshakeDone(trans.writer)
    /\ \E buf \in SecurePayloads : \E o \in write(trans.writer, buf) :
          SecureCall("write", 0, buf, o, [trans EXCEPT !.writer = o.t])

\* what the flush has written to the channel reaches the reader's side
SecureFlush ==
    /\ HandshakeDone(trans.writer)
    /\ \E o \in flush(trans.writer) :
          LET old == Len(trans.writer.transport.sent)
              new == o.t.transport.sent
              arrived == IF Len(new) > old THEN new[Len(new)] ELSE << >>
          IN  SecureCall("flush", 0, << >>, o,
                         [trans EXCEPT !.writer = o.t,
                                       !.reader.transport.wire = @ \o arrived])

SecureRead ==
    /\ HandshakeDone(trans.reader)
    /\ BytesIO_rest(trans.reader.rbuf) # << >> \/ trans.reader.transport.wire # << >>
    /\ \E sz \in 1..MaxLinkRead : \E o \in read(trans.reader, sz) :
          SecureCall("read", sz, << >>, o, [trans EXCEPT !.reader = o.t])

SecureNext ==
    SecureOpenWriter \/ SecureOpenReader \/ SecureWrite \/ SecureFlush \/ SecureRead

SecureSpec == SecureInit /\ [][SecureNext]_vars

=============================================================================
